---------------------------- MODULE Spec2Model ----------------------------
(***************************************************************************)
(* Rotating file sink of the glog logging package (src/file.go).           *)
(*                                                                         *)
(* Tasks: the background loop (file.run), caller tasks inside file.Write,  *)
(* caller tasks inside file.Close, the constructor (NewFileLogger) and the *)
(* sweep tasks started by the loop.  Every action is one step of one task  *)
(* between two accesses to shared state; the Go scheduler may interleave   *)
(* the tasks in any order, and the timer may fire at any moment.           *)
(*                                                                         *)
(* Time is counted in ticks of the loop's one-minute ticker.  Sizes are in *)
(* bytes.  A file is identified by the stem of its name; names produced by *)
(* the naming policy are numbered in the order they are generated.         *)
(*                                                                         *)
(* Specifications: Spec, the sink from its construction on (SpecFair: the  *)
(* same under fair scheduling; SpecBurst: a burst of Write calls within    *)
(* one period of the ticker); SpecSweep, SpecCompress and SpecNaming, one  *)
(* sweep, one archiver run and one choice of a file name in a directory    *)
(* that was in use before, the last two step by step; SpecDispatch, the    *)
(* registry of sinks and the dispatch of log calls (src/unnamed/part_001). *)
(***************************************************************************)
EXTENDS Integers, Sequences, FiniteSets, TLC

\* ------------------------------------------------------------- bounds
\* Number of Write calls made by the callers in one run.
MaxMsgs == 3

\* Number of Write calls in a run whose callers write in a burst, within
\* one period of the ticker.
BurstMsgs == 10

\* Number of ticks of the loop's ticker in one run.
MaxTicks == 2

\* Number of I/O failures (of the archiver, of os.OpenFile) in one run.
MaxFaults == 1

\* Number of archives found in the directory by a sink started in a
\* directory that was in use before.
DirArchives == 3

\* The clock, in ticks, at the sweep of such a sink; the archives were last
\* modified at the ticks 0..SweepNow.
SweepNow == 3

\* Number of plain log files, other than the sink's current one, that the
\* archiver finds in the directory.
DirLogs == 3

\* Number of values rand.Int31() takes in a run, hence of names the
\* pattern of the sink can give.
NameSpace == 2

\* Number of sinks registered in a run, after the console sink that the
\* package registers at start.
MaxLoggers == 2

\* ------------------------------------------------- program constants
LevelPanic == 0

LevelFatal == 1

LevelError == 2

LevelWarn == 3

LevelInfo == 4

LevelVerbose == 5

LevelDebug == 6

LevelTrace == 7

Levels == LevelPanic..LevelTrace

ModeRelease == "release"

ModeDebug == "debug"

Console == "console"

File == "file"

Syslog == "syslog"

\* The number of names the function Path gives f.format tries.
formatTries == 100

BufferCapacity == 8

defaultCacheSize == 2048

RotateByDuration == "RotateByDuration"

RotateBySize == "RotateBySize"

SweepByFileCount == "SweepByFileCount"

SweepByInterval == "SweepByInterval"

\* ---------------------------------------------------------- the tasks
\* The tasks that call Write, and those that call Close.
Writers == {"w1", "w2"}

Closers == {"c1", "c2"}

\* The nil *os.File.
Nil == 0

\* The nil *Message a receive from the closed, drained queue yields; also
\* the id of no message.
NilMsg == -1

\* Mutant of ErrMsg: rotate passes no message to f.write.
NoErrMsg == NilMsg

\* The message rotate builds from the archiver's error (its text is the
\* error's, its level LevelError).  The callers' messages are numbered
\* 1, 2, ... in the order in which they enter the queue.
ErrMsg == 0

\* Inputs: the formatted lengths of a run's messages, and the options.
MsgLens == {60, 1100}

RotateFileSizes == {100}

RotateDurations == {2}

SweepFileCounts == {1}

SweepIntervals == {1}

\* The forms of a file name, extension apart.  DefaultForm: the name of the
\* running binary, "-" and a time in the layout 2006-01-02T150405, as
\* defaultFnFormatter makes it and defaultFnRegex matches it.  PatternForm:
\* the prefix of the sink's pattern and a decimal number, as the format of
\* Path makes it and the fnregex of Path matches it (the pattern has
\* nothing after its "*", as "test-*").  ForeignForm: any other name, as
\* the files of a sink with another pattern have.
DefaultForm == "default"

PatternForm == "pattern"

ForeignForm == "foreign"

Forms == {DefaultForm, PatternForm, ForeignForm}

\* The regular expression of a sink without a pattern.
defaultFnRegex == DefaultForm

\* Input: the sink is given the pattern "test-*".
FnRegexes == {PatternForm}

\* Inputs of a sweep over a directory that was in use before: the options
\* of the sweep and the archives of the directory, oldest first.
DirSweepIntervals == {1, 2}

DirSweepFileCounts == 0..DirArchives

DirFnRegexes == {DefaultForm, PatternForm}

Archive == [log : {FALSE}, tgz : {"full"}, data : {<<>>},
            mtime : 0..SweepNow, form : Forms]

\* Inputs of an archiver run over such a directory: the plain log files it
\* finds, in name order, some beside the truncated archive of a failed run.
LogFile == [log : {TRUE}, tgz : {"none", "partial"}, data : {<<>>},
            mtime : {0}, form : {PatternForm}]

LogDirectories == UNION {[1..n -> LogFile] : n \in 2..DirLogs}

Directories ==
    {d \in [1..DirArchives -> Archive] :
        \A i, j \in 1..DirArchives : i < j => d[i].mtime <= d[j].mtime}

VARIABLES
    rotatePolicy,    \* f.rotatePolicy
    rotateDuration,  \* f.rotateDuration, in ticks (minutes)
    rotateFileSize,  \* f.rotateFileSize
    sweepPolicy,     \* f.sweepPolicy
    sweepInterval,   \* f.sweepInterval, in ticks (minutes)
    sweepFileCount,  \* f.sweepFileCount
    fnregex,         \* f.fnregex: the form of name it matches
    msgLen,          \* len(f.Format(msg)) of this run's messages
    filesize,        \* f.filesize
    filename,        \* f.filename: a stem, or 0 for ""
    file,            \* f.file: the handle (named by the stem it opened) or Nil
    buf,             \* f.buf: the messages it holds, oldest first
    messages,        \* f.messages: the queued messages, oldest first
    messagesClosed,  \* close(f.messages) has happened
    closeNotify,     \* close(f.closeNotify) has happened
    closed,          \* f.closed
    elapse,          \* run's local elapse, in ticks
    fds,             \* the handles of the sink that are open in the OS
    disk,            \* the directory f.path: disk[stem]
    pcLoop,          \* where the background loop is
    rotFrom,         \* who called the rotate in progress: "init" or "tick"
    wgDone,          \* NewFileLogger's WaitGroup has been released (ready())
    constructed,     \* NewFileLogger has returned the sink
    pcW,             \* where each caller of Write is
    pcC,             \* where each caller of Close is
    sweepers,        \* number of sweep tasks started and not yet run
    ticks,           \* ticks fired so far (the clock, in minutes)
    nextId,          \* number of Write calls made so far
    crashed,         \* the panic that ended the process, or "no"
    faults,          \* I/O failures so far
    walk,            \* the file the callback of compress's walk is at, or 0
    try,             \* the local try of the function Path gives f.format
    mode,            \* logctx.mode
    initialized,     \* logctx.initialized
    loggers,         \* logctx.loggers: name -> the sink (its id, its level)
    nextLogger,      \* number of sinks constructed so far
    closedLoggers,   \* the sinks whose Close has been called
    received,        \* the last call of log: its level, the mode, the sinks written to
    sent,            \* number of messages sent into f.messages so far
    handed,          \* history: the messages the loop received, in order
    prevFile,        \* history: the stem that was active before the last tick rotation
    ticksSince       \* history: ticks handled since the last tick rotation

registry == <<mode, initialized, loggers, nextLogger, closedLoggers, received>>

vars == <<mode, initialized, loggers, nextLogger, closedLoggers, received,
          rotatePolicy, rotateDuration, rotateFileSize, sweepPolicy,
          sweepInterval, sweepFileCount, fnregex, msgLen, filesize, filename, file,
          buf, messages, messagesClosed, closeNotify, closed, elapse, fds,
          disk, pcLoop, rotFrom, wgDone, constructed, pcW, pcC,
          sweepers, ticks, nextId, crashed, faults, walk, try, sent, handed,
          prevFile, ticksSince>>

options == <<rotatePolicy, rotateDuration, rotateFileSize, sweepPolicy,
             sweepInterval, sweepFileCount, fnregex, msgLen>>

\* The variables of the file sink; and all of them but crashed.
fileSinkRunning ==
    <<rotatePolicy, rotateDuration, rotateFileSize, sweepPolicy,
      sweepInterval, sweepFileCount, fnregex, msgLen, filesize, filename,
      file, buf, messages, messagesClosed, closeNotify, closed, elapse, fds,
      disk, pcLoop, rotFrom, wgDone, constructed, pcW, pcC, sweepers, ticks,
      nextId, faults, walk, try, sent, handed, prevFile, ticksSince>>

fileSink == <<fileSinkRunning, crashed>>

callers == <<pcW, pcC, nextId>>

channels == <<messages, messagesClosed, closeNotify, closed>>

history == <<sent, handed>>

\* The environment's failures are injected by the steps of rotate alone.
io == <<faults>>

\* ------------------------------------------------------------ helpers
\* len(msgstr) of write; every message of a run formats to msgLen bytes.
FormatLen(msg) == msgLen

\* f.buf.Len(): each buffered message is its text and a '\n'.
RECURSIVE BufLen(_)
BufLen(b) == IF b = <<>> THEN 0 ELSE FormatLen(Head(b)) + 1 + BufLen(Tail(b))

\* The files of the directory.
Stems == DOMAIN disk

\* No file under a name that f.format() returns: neither the plain log file
\* nor the archive exists.  The name has the form fnregex matches.
NoFile == [log |-> FALSE, tgz |-> "none", data |-> <<>>, mtime |-> 0,
           form |-> fnregex]

\* n, _ := f.file.Write(data): the bytes that reach the file.  A write on a
\* handle that has been closed fails and writes nothing.
FileWriteN(h, data) == IF h \in fds THEN BufLen(data) ELSE 0

FileWriteDisk(h, data) ==
    IF h \in fds THEN [disk EXCEPT ![h].data = @ \o data] ELSE disk

\* The condition of write under which the buffer goes to the file first.
WriteFlushes(msg) ==
    FormatLen(msg) + BufLen(buf) >= defaultCacheSize /\ file # Nil

\* f.write(msg): what it leaves in f.buf, f.filesize and on disk.
write(msg) ==
    IF msg = NilMsg
    THEN [buf |-> buf, filesize |-> filesize, disk |-> disk]
    ELSE IF WriteFlushes(msg)
         THEN [buf |-> <<msg>>,
               filesize |-> filesize + FileWriteN(file, buf),
               disk |-> FileWriteDisk(file, buf)]
         ELSE [buf |-> Append(buf, msg), filesize |-> filesize, disk |-> disk]

\* f.flush(): what it leaves in f.buf, f.filesize and on disk.
flush ==
    IF file # Nil
    THEN [buf |-> <<>>,
          filesize |-> filesize + FileWriteN(file, buf),
          disk |-> FileWriteDisk(file, buf)]
    ELSE [buf |-> buf, filesize |-> filesize, disk |-> disk]

\* Mutant of CloseHandle: the handle is left open.
CloseHandleLeaks == fds

\* f.file.Close() under "if f.file != nil": the handles left open.
CloseHandle == IF file # Nil THEN fds \ {file} ELSE fds

\* Mutant of Eligible: the file rotate has just closed is archived too.
EligibleAll == {s \in Stems : disk[s].log}

\* The files compress archives: plain log files other than f.filename.
Eligible == {s \in Stems : disk[s].log /\ s # filename}

\* The directory after a walk of compress that fails at file `fail` (0: at
\* none).  The walk visits the files in name order and stops at the first
\* error; a file it finishes becomes an archive and its source is removed;
\* the one it fails at keeps its source, with a truncated archive beside it
\* when the failure came after os.Create (`partial`).
compress(fail, partial) ==
    [s \in Stems |->
        IF s \in Eligible /\ (fail = 0 \/ s < fail)
        THEN [disk[s] EXCEPT !.log = FALSE, !.tgz = "full", !.mtime = ticks]
        ELSE IF s = fail /\ partial
             THEN [disk[s] EXCEPT !.tgz = "partial", !.mtime = ticks]
             ELSE disk[s]]

\* Mutant of ShouldRotate: the bytes still in the buffer count too.
ShouldRotateBuffered(e) ==
    \/ rotatePolicy = RotateBySize /\ filesize + BufLen(buf) >= rotateFileSize
    \/ rotatePolicy = RotateByDuration /\ e >= rotateDuration

\* Mutant of ShouldRotate: every tick rotates.
ShouldRotateEager(e) == TRUE

\* The rotation test of the tick case.
ShouldRotate(e) ==
    \/ rotatePolicy = RotateBySize /\ filesize >= rotateFileSize
    \/ rotatePolicy = RotateByDuration /\ e >= rotateDuration

\* Mutant of InitialRotateFailed: the error is dropped, as the tick case
\* drops it.
InitialRotateIgnored(ok) == FALSE

\* run's test of the initial rotation, "err != nil": it panics on it and
\* calls ready() otherwise.
InitialRotateFailed(ok) == ~ok

\* Mutant of SwapSucceeds: a plain store in place of the compare-and-swap.
SwapAlways == TRUE

\* atomic.CompareAndSwapUint32(&f.closed, 0, 1) succeeds.
SwapSucceeds == closed = 0

\* Mutant of CanSend: an unbounded queue.
CanSendAlways == TRUE

\* A send on f.messages can complete: the queue has a free slot.
CanSend == Len(messages) < BufferCapacity

\* re.MatchString(path) for the archive of stem s: the expressions end in
\* "\.tgz", so that only an archive matches, and only one of their form.
MatchString(re, s) == disk[s].tgz # "none" /\ disk[s].form = re

\* The archives the test of sweep selects: those f.fnregex matches and,
\* when the sink has a pattern, those defaultFnRegex matches.
Matching ==
    {s \in Stems :
        \/ MatchString(fnregex, s)
        \/ fnregex # defaultFnRegex /\ MatchString(defaultFnRegex, s)}

\* ---------------------------------------------------------------- Init
\* The registry as the package's init() leaves it: debug mode, and the
\* console sink, at LevelDebug, the only sink.
InitRegistry ==
    /\ mode = ModeDebug
    /\ initialized = 1
    /\ loggers = [n \in {Console} |-> [id |-> 1, level |-> LevelDebug]]
    /\ nextLogger = 1
    /\ closedLoggers = {}
    /\ received = {}

\* The sink as NewFileLogger has built it and started run, which is about
\* to make the initial rotation.
Init ==
    /\ rotatePolicy \in {RotateByDuration, RotateBySize}
    /\ rotateDuration \in RotateDurations
    /\ rotateFileSize \in RotateFileSizes
    /\ sweepPolicy \in {SweepByFileCount, SweepByInterval}
    /\ sweepInterval \in SweepIntervals
    /\ sweepFileCount \in SweepFileCounts
    /\ fnregex \in FnRegexes
    /\ msgLen \in MsgLens
    /\ filesize = 0
    /\ filename = 0
    /\ file = Nil
    /\ buf = <<>>
    /\ messages = <<>>
    /\ messagesClosed = FALSE
    /\ closeNotify = FALSE
    /\ closed = 0
    /\ elapse = 0
    /\ fds = {}
    /\ disk = <<>>
    /\ pcLoop = "rotate"
    /\ rotFrom = "init"
    /\ wgDone = FALSE
    /\ constructed = FALSE
    /\ pcW = [w \in Writers |-> "idle"]
    /\ pcC = [c \in Closers |-> "idle"]
    /\ sweepers = 0
    /\ ticks = 0
    /\ nextId = 0
    /\ crashed = "no"
    /\ faults = 0
    /\ walk = 0
    /\ try = 0
    /\ sent = 0
    /\ handed = <<>>
    /\ prevFile = 0
    /\ ticksSince = 0
    /\ InitRegistry

\* ------------------------------------------------- the background loop
\* rotate, first step: close the current file.
RotateClose ==
    /\ crashed = "no" /\ pcLoop = "rotate"
    /\ fds' = CloseHandle
    /\ pcLoop' = "compress"
    /\ UNCHANGED <<registry, options, try, walk, io, filesize, filename, file, buf, channels, elapse,
                   disk, rotFrom, wgDone, constructed, callers, sweepers,
                   ticks, crashed, history, prevFile, ticksSince>>

\* rotate, second step: the archiver; its error goes through f.write.
RotateCompress ==
    /\ crashed = "no" /\ pcLoop = "compress"
    /\ \/ /\ disk' = compress(0, FALSE)
          /\ UNCHANGED <<buf, filesize, faults>>
       \/ /\ faults < MaxFaults
          /\ faults' = faults + 1
          /\ \E fail \in Eligible, partial \in BOOLEAN :
                LET w == write(ErrMsg) IN
                /\ buf' = w.buf
                /\ filesize' = w.filesize
                /\ disk' = [s \in Stems |->
                              [compress(fail, partial)[s] EXCEPT !.data = w.disk[s].data]]
    /\ pcLoop' = "open"
    /\ UNCHANGED <<registry, options, try, walk, filename, file, channels, elapse, fds, rotFrom,
                   wgDone, constructed, callers, sweepers, ticks, crashed,
                   history, prevFile, ticksSince>>

\* rotate, last step: reset the counter, pick the next name, open it; then
\* what the caller of rotate does with the result: run panics on the error
\* of the initial rotation and calls ready() otherwise; the tick case
\* ignores the error, resets elapse and starts a sweep task.
RotateOpen ==
    /\ crashed = "no" /\ pcLoop = "open"
    /\ filesize' = 0
    /\ filename' = Len(disk) + 1
    /\ \E ok \in (IF faults < MaxFaults THEN BOOLEAN ELSE {TRUE}) :
         /\ faults' = IF ok THEN faults ELSE faults + 1
         /\ IF ok
            THEN /\ disk' = Append(disk, [NoFile EXCEPT !.log = TRUE, !.mtime = ticks])
                 /\ file' = Len(disk) + 1
                 /\ fds' = fds \cup {Len(disk) + 1}
            ELSE /\ disk' = Append(disk, NoFile)
                 /\ file' = Nil
                 /\ fds' = fds
         /\ IF rotFrom = "init"
            THEN /\ crashed' = IF InitialRotateFailed(ok) THEN "rotate" ELSE "no"
                 /\ wgDone' = ~InitialRotateFailed(ok)
                 /\ UNCHANGED <<elapse, sweepers>>
            ELSE /\ elapse' = 0
                 /\ sweepers' = sweepers + 1
                 /\ UNCHANGED <<crashed, wgDone>>
    /\ pcLoop' = "select"
    /\ UNCHANGED <<registry, options, try, walk, buf, channels, rotFrom, constructed, callers,
                   ticks, history, prevFile, ticksSince>>

\* case msg := <-f.messages, a queued message: f.write(msg).
LoopRecv ==
    /\ crashed = "no" /\ pcLoop = "select"
    /\ messages # <<>>
    /\ LET w == write(Head(messages)) IN
         /\ buf' = w.buf
         /\ filesize' = w.filesize
         /\ disk' = w.disk
    /\ messages' = Tail(messages)
    /\ handed' = Append(handed, Head(messages))
    /\ UNCHANGED <<registry, options, try, walk, io, filename, file, messagesClosed, closeNotify,
                   closed, elapse, fds, pcLoop, rotFrom, wgDone, constructed,
                   callers, sweepers, ticks, crashed, sent, prevFile,
                   ticksSince>>

\* case msg := <-f.messages on the closed, drained queue: f.write(nil).
LoopRecvNil ==
    /\ crashed = "no" /\ pcLoop = "select"
    /\ messages = <<>> /\ messagesClosed
    /\ buf' = write(NilMsg).buf
    /\ UNCHANGED <<registry, options, try, walk, io, filesize, filename, file, channels, elapse, fds,
                   disk, pcLoop, rotFrom, wgDone, constructed, callers,
                   sweepers, ticks, crashed, history, prevFile, ticksSince>>

\* case <-ticker.C.  The ticker is made after ready() and first fires a
\* minute later: NewFileLogger, which had only to return, has returned.
LoopTick ==
    /\ crashed = "no" /\ pcLoop = "select"
    /\ constructed
    /\ ticks < MaxTicks
    /\ ticks' = ticks + 1
    /\ elapse' = elapse + 1
    /\ IF ShouldRotate(elapse + 1)
       THEN /\ pcLoop' = "rotate"
            /\ rotFrom' = "tick"
            /\ prevFile' = filename
            /\ ticksSince' = 0
       ELSE /\ ticksSince' = ticksSince + 1
            /\ UNCHANGED <<pcLoop, rotFrom, prevFile>>
    /\ UNCHANGED <<registry, options, try, walk, io, filesize, filename, file, buf, channels, fds,
                   disk, wgDone, constructed, callers, sweepers, crashed,
                   history>>

\* case <-f.closeNotify: return.
LoopCloseNotify ==
    /\ crashed = "no" /\ pcLoop = "select"
    /\ closeNotify
    /\ pcLoop' = "done"
    /\ UNCHANGED <<registry, options, try, walk, io, filesize, filename, file, buf, channels, elapse,
                   fds, disk, rotFrom, wgDone, constructed, callers, sweepers,
                   ticks, crashed, history, prevFile, ticksSince>>

\* ------------------------------------------------------- NewFileLogger
\* wg.Wait() returns once ready() has been called; the sink is returned.
NewFileLogger ==
    /\ crashed = "no" /\ wgDone /\ ~constructed
    /\ constructed' = TRUE
    /\ UNCHANGED <<registry, options, try, walk, io, filesize, filename, file, buf, channels, elapse,
                   fds, disk, pcLoop, rotFrom, wgDone, callers, sweepers,
                   ticks, crashed, history, prevFile, ticksSince>>

\* ----------------------------------------------------------- file.Write
\* Write, first step: the load of f.closed; a closed sink drops the message.
WriteLoad(w, limit) ==
    /\ crashed = "no" /\ constructed
    /\ pcW[w] = "idle"
    /\ nextId < limit
    /\ nextId' = nextId + 1
    /\ IF closed = 1
       THEN UNCHANGED pcW
       ELSE pcW' = [pcW EXCEPT ![w] = "send"]
    /\ UNCHANGED <<registry, options, try, walk, io, filesize, filename, file, buf, channels, elapse,
                   fds, disk, pcLoop, rotFrom, wgDone, constructed, pcC,
                   sweepers, ticks, crashed, history, prevFile, ticksSince>>

\* Write, second step: f.messages <- msg.  The send waits while the queue
\* is full and panics when the queue is (or gets) closed.
WriteSend(w) ==
    /\ crashed = "no"
    /\ pcW[w] = "send"
    /\ \/ /\ messagesClosed
          /\ crashed' = "send on closed channel"
          /\ UNCHANGED <<messages, sent, pcW>>
       \/ /\ ~messagesClosed
          /\ CanSend
          /\ messages' = Append(messages, sent + 1)
          /\ sent' = sent + 1
          /\ pcW' = [pcW EXCEPT ![w] = "idle"]
          /\ UNCHANGED crashed
    /\ UNCHANGED <<registry, options, try, walk, io, filesize, filename, file, buf, messagesClosed,
                   closeNotify, closed, elapse, fds, disk, pcLoop, rotFrom,
                   wgDone, constructed, pcC, nextId, sweepers, ticks, handed,
                   prevFile, ticksSince>>

\* ----------------------------------------------------------- file.Close
\* Close, first step: the compare-and-swap of f.closed; the loser returns
\* nil, the winner goes on (through the one-second wait) to the teardown.
CloseSwap(c) ==
    /\ crashed = "no" /\ constructed
    /\ pcC[c] = "idle"
    /\ IF SwapSucceeds
       THEN /\ closed' = 1
            /\ pcC' = [pcC EXCEPT ![c] = "closeNotify"]
       ELSE /\ pcC' = [pcC EXCEPT ![c] = "noop"]
            /\ UNCHANGED closed
    /\ UNCHANGED <<registry, options, try, walk, io, filesize, filename, file, buf, messages,
                   messagesClosed, closeNotify, elapse, fds, disk, pcLoop,
                   rotFrom, wgDone, constructed, pcW, nextId, sweepers,
                   ticks, crashed, history, prevFile, ticksSince>>

\* close(f.closeNotify); closing a closed channel panics.
CloseCloseNotify(c) ==
    /\ crashed = "no"
    /\ pcC[c] = "closeNotify"
    /\ IF closeNotify
       THEN /\ crashed' = "close of closed channel"
            /\ UNCHANGED <<closeNotify, pcC>>
       ELSE /\ closeNotify' = TRUE
            /\ pcC' = [pcC EXCEPT ![c] = "closeMessages"]
            /\ UNCHANGED crashed
    /\ UNCHANGED <<registry, options, try, walk, io, filesize, filename, file, buf, messages,
                   messagesClosed, closed, elapse, fds, disk, pcLoop, rotFrom,
                   wgDone, constructed, pcW, nextId, sweepers, ticks,
                   history, prevFile, ticksSince>>

\* close(f.messages); closing a closed channel panics.
CloseCloseMessages(c) ==
    /\ crashed = "no"
    /\ pcC[c] = "closeMessages"
    /\ IF messagesClosed
       THEN /\ crashed' = "close of closed channel"
            /\ UNCHANGED <<messagesClosed, pcC>>
       ELSE /\ messagesClosed' = TRUE
            /\ pcC' = [pcC EXCEPT ![c] = "flush"]
            /\ UNCHANGED crashed
    /\ UNCHANGED <<registry, options, try, walk, io, filesize, filename, file, buf, messages,
                   closeNotify, closed, elapse, fds, disk, pcLoop, rotFrom,
                   wgDone, constructed, pcW, nextId, sweepers, ticks,
                   history, prevFile, ticksSince>>

\* f.flush(), in the caller of Close.
CloseFlush(c) ==
    /\ crashed = "no"
    /\ pcC[c] = "flush"
    /\ buf' = flush.buf
    /\ filesize' = flush.filesize
    /\ disk' = flush.disk
    /\ pcC' = [pcC EXCEPT ![c] = "fclose"]
    /\ UNCHANGED <<registry, options, try, walk, io, filename, file, channels, elapse, fds, pcLoop,
                   rotFrom, wgDone, constructed, pcW, nextId, sweepers,
                   ticks, crashed, history, prevFile, ticksSince>>

\* if f.file != nil { f.file.Close() }; return nil.
CloseFile(c) ==
    /\ crashed = "no"
    /\ pcC[c] = "fclose"
    /\ fds' = CloseHandle
    /\ pcC' = [pcC EXCEPT ![c] = "done"]
    /\ UNCHANGED <<registry, options, try, walk, io, filesize, filename, file, buf, channels, elapse,
                   disk, pcLoop, rotFrom, wgDone, constructed, pcW,
                   nextId, sweepers, ticks, crashed, history, prevFile,
                   ticksSince>>

\* ----------------------------------------------------------- file.sweep
\* The archives a sweep removes.  By interval: those that tm.Before(mod +
\* interval) selects.  By count: with more than sweepFileCount archives,
\* all but the first sweepFileCount of the newest-first order, `keep`.
SweepRemoves(keep) ==
    IF sweepPolicy = SweepByInterval
    THEN {s \in Matching : ticks < disk[s].mtime + sweepInterval}
    ELSE IF Cardinality(Matching) > sweepFileCount /\ sweepFileCount > 0
         THEN Matching \ keep
         ELSE {}

\* Mutant of Newest: the order of byTimestamp reversed, oldest first.
Oldest ==
    {k \in SUBSET Matching :
        /\ Cardinality(k) = sweepFileCount
        /\ \A a \in k, b \in Matching \ k : disk[a].mtime <= disk[b].mtime}

\* The sets sort.Sort(files) can put first: sweepFileCount archives none of
\* which is older than one left out (equal timestamps sort either way).
Newest ==
    {k \in SUBSET Matching :
        /\ Cardinality(k) = sweepFileCount
        /\ \A a \in k, b \in Matching \ k : disk[a].mtime >= disk[b].mtime}

\* One sweep task, started by the tick case after a rotation.
Sweep ==
    /\ crashed = "no"
    /\ sweepers > 0
    /\ sweepers' = sweepers - 1
    /\ \E keep \in (IF Newest = {} THEN {{}} ELSE Newest) :
         disk' = [s \in Stems |->
                    IF s \in SweepRemoves(keep)
                    THEN [disk[s] EXCEPT !.tgz = "none"]
                    ELSE disk[s]]
    /\ UNCHANGED <<registry, options, try, walk, io, filesize, filename, file, buf, channels, elapse,
                   fds, pcLoop, rotFrom, wgDone, constructed, callers, ticks,
                   crashed, history, prevFile, ticksSince>>

\* ---------------------------------------------------------------- Next
Next ==
    \/ RotateClose
    \/ RotateCompress
    \/ RotateOpen
    \/ LoopRecv
    \/ LoopRecvNil
    \/ LoopTick
    \/ LoopCloseNotify
    \/ NewFileLogger
    \/ \E w \in Writers : WriteLoad(w, MaxMsgs)
    \/ \E w \in Writers : WriteSend(w)
    \/ \E c \in Closers : CloseSwap(c)
    \/ \E c \in Closers : CloseCloseNotify(c)
    \/ \E c \in Closers : CloseCloseMessages(c)
    \/ \E c \in Closers : CloseFlush(c)
    \/ \E c \in Closers : CloseFile(c)
    \/ Sweep

Spec == Init /\ [][Next]_vars

\* The scheduling: a task that can take a step takes it in the end (the Go
\* scheduler starves no runnable goroutine), and a select whose closeNotify
\* case is ready again and again takes it in the end (select picks among
\* the ready cases at random).  Whether a caller calls Write or Close at
\* all, and whether the ticker fires, is left open.
Fairness ==
    /\ WF_vars(RotateClose)
    /\ WF_vars(RotateCompress)
    /\ WF_vars(RotateOpen)
    /\ WF_vars(LoopRecv)
    /\ SF_vars(LoopCloseNotify)
    /\ WF_vars(NewFileLogger)
    /\ \A w \in Writers : WF_vars(WriteSend(w))
    /\ \A c \in Closers :
          /\ WF_vars(CloseCloseNotify(c))
          /\ WF_vars(CloseCloseMessages(c))
          /\ WF_vars(CloseFlush(c))
          /\ WF_vars(CloseFile(c))

SpecFair == Init /\ [][Next]_vars /\ Fairness

\* A burst: the callers make BurstMsgs Write calls within one period of the
\* ticker, so that neither a tick nor a sweep happens in the run.
NextBurst ==
    \/ RotateClose
    \/ RotateCompress
    \/ RotateOpen
    \/ LoopRecv
    \/ LoopRecvNil
    \/ LoopCloseNotify
    \/ NewFileLogger
    \/ \E w \in Writers : WriteLoad(w, BurstMsgs)
    \/ \E w \in Writers : WriteSend(w)
    \/ \E c \in Closers : CloseSwap(c)
    \/ \E c \in Closers : CloseCloseNotify(c)
    \/ \E c \in Closers : CloseCloseMessages(c)
    \/ \E c \in Closers : CloseFlush(c)
    \/ \E c \in Closers : CloseFile(c)

SpecBurst == Init /\ [][NextBurst]_vars

\* A sweep alone: a sink started in a directory that holds the archives of
\* earlier runs, its own or of other sinks, has made its first rotation at
\* a tick and started the sweep task; the file it wrote before the rotation
\* is still a plain log file.
InitSweep ==
    /\ rotatePolicy = RotateByDuration
    /\ rotateDuration \in RotateDurations
    /\ rotateFileSize \in RotateFileSizes
    /\ \/ sweepPolicy = SweepByFileCount
          /\ sweepFileCount \in DirSweepFileCounts
          /\ sweepInterval \in SweepIntervals
       \/ sweepPolicy = SweepByInterval
          /\ sweepInterval \in DirSweepIntervals
          /\ sweepFileCount \in SweepFileCounts
    /\ fnregex \in DirFnRegexes
    /\ msgLen = 60
    /\ filesize = 0
    /\ filename = DirArchives + 2
    /\ file = DirArchives + 2
    /\ buf = <<>>
    /\ messages = <<>>
    /\ messagesClosed = FALSE
    /\ closeNotify = FALSE
    /\ closed = 0
    /\ elapse = 0
    /\ fds = {DirArchives + 2}
    /\ \E d \in Directories :
          disk = d \o <<[NoFile EXCEPT !.log = TRUE, !.mtime = SweepNow],
                        [NoFile EXCEPT !.log = TRUE, !.mtime = SweepNow]>>
    /\ pcLoop = "select"
    /\ rotFrom = "tick"
    /\ wgDone = TRUE
    /\ constructed = TRUE
    /\ pcW = [w \in Writers |-> "idle"]
    /\ pcC = [c \in Closers |-> "idle"]
    /\ sweepers = 1
    /\ ticks = SweepNow
    /\ nextId = 0
    /\ crashed = "no"
    /\ faults = 0
    /\ walk = 0
    /\ try = 0
    /\ sent = 0
    /\ handed = <<>>
    /\ prevFile = DirArchives + 1
    /\ ticksSince = 0
    /\ InitRegistry

NextSweep == Sweep

SpecSweep == InitSweep /\ [][NextSweep]_vars

\* ----------------------------------------- file.compress, step by step
\* The file the walk of compress comes to next: the first, in name order,
\* of the plain log files it has not archived.
NextInWalk == CHOOSE s \in Eligible : \A o \in Eligible : s <= o

\* The callback of the walk, for one plain log file, from d.Info() to
\* io.Copy: the archive is created and the header and the content are
\* written into the writers tw and gzw, which are still open.
WalkArchive ==
    /\ crashed = "no" /\ pcLoop = "walk"
    /\ Eligible # {}
    /\ walk' = NextInWalk
    /\ disk' = [disk EXCEPT ![NextInWalk].tgz = "partial",
                            ![NextInWalk].mtime = ticks]
    /\ pcLoop' = "remove"
    /\ UNCHANGED <<registry, options, try, io, filesize, filename, file, buf, channels,
                   elapse, fds, rotFrom, wgDone, constructed, callers,
                   sweepers, ticks, crashed, history, prevFile, ticksSince>>

\* The callback returns an error (of d.Info, os.Create, os.Open, the header
\* or io.Copy): WalkDir stops and returns it, compress returns it, and
\* rotate writes it as a message.  After os.Create the truncated archive
\* stays beside the source (`created`).
WalkFail ==
    /\ crashed = "no" /\ pcLoop = "walk"
    /\ Eligible # {}
    /\ faults < MaxFaults
    /\ faults' = faults + 1
    /\ walk' = NextInWalk
    /\ \E created \in BOOLEAN :
         LET w == write(ErrMsg) IN
         /\ buf' = w.buf
         /\ filesize' = w.filesize
         /\ disk' = IF created
                    THEN [w.disk EXCEPT ![NextInWalk].tgz = "partial",
                                        ![NextInWalk].mtime = ticks]
                    ELSE w.disk
    /\ pcLoop' = "open"
    /\ UNCHANGED <<registry, options, try, filename, file, channels, elapse, fds, rotFrom,
                   wgDone, constructed, callers, sweepers, ticks, crashed,
                   history, prevFile, ticksSince>>

\* os.Remove(path), the last statement of the callback.
WalkRemove ==
    /\ crashed = "no" /\ pcLoop = "remove"
    /\ disk' = [disk EXCEPT ![walk].log = FALSE]
    /\ pcLoop' = "deferred"
    /\ UNCHANGED <<registry, options, try, io, walk, filesize, filename, file, buf, channels,
                   elapse, fds, rotFrom, wgDone, constructed, callers,
                   sweepers, ticks, crashed, history, prevFile, ticksSince>>

\* The deferred calls of the callback, run at its return: tw.Close(),
\* gzw.Flush(), gzw.Close(), lfile.Close(), gzfile.Close().  They write the
\* end of the archive; their errors are dropped and the walk goes on.
WalkDeferred ==
    /\ crashed = "no" /\ pcLoop = "deferred"
    /\ \/ /\ disk' = [disk EXCEPT ![walk].tgz = "full"]
          /\ UNCHANGED faults
       \/ /\ faults < MaxFaults
          /\ faults' = faults + 1
          /\ UNCHANGED disk
    /\ walk' = 0
    /\ pcLoop' = "walk"
    /\ UNCHANGED <<registry, options, try, filesize, filename, file, buf, channels, elapse,
                   fds, rotFrom, wgDone, constructed, callers, sweepers,
                   ticks, crashed, history, prevFile, ticksSince>>

\* The walk has come to the end of the directory: compress returns nil.
WalkEnd ==
    /\ crashed = "no" /\ pcLoop = "walk"
    /\ Eligible = {}
    /\ pcLoop' = "open"
    /\ UNCHANGED <<registry, options, try, io, walk, filesize, filename, file, buf, channels,
                   elapse, fds, disk, rotFrom, wgDone, constructed, callers,
                   sweepers, ticks, crashed, history, prevFile, ticksSince>>

\* An archiver run alone: a sink started in a directory that holds plain
\* log files of earlier runs is in the rotation of its first tick, has
\* closed its file and enters compress.
InitCompress ==
    /\ rotatePolicy \in {RotateByDuration, RotateBySize}
    /\ rotateDuration \in RotateDurations
    /\ rotateFileSize \in RotateFileSizes
    /\ sweepPolicy \in {SweepByFileCount, SweepByInterval}
    /\ sweepInterval \in SweepIntervals
    /\ sweepFileCount \in SweepFileCounts
    /\ fnregex \in FnRegexes
    /\ msgLen \in MsgLens
    /\ filesize = 0
    /\ buf = <<>>
    /\ messages = <<>>
    /\ messagesClosed = FALSE
    /\ closeNotify = FALSE
    /\ closed = 0
    /\ elapse = 1
    /\ fds = {}
    /\ \E d \in LogDirectories :
          /\ disk = Append(d, [NoFile EXCEPT !.log = TRUE])
          /\ filename = Len(d) + 1
          /\ file = Len(d) + 1
          /\ prevFile = Len(d) + 1
    /\ pcLoop = "walk"
    /\ rotFrom = "tick"
    /\ wgDone = TRUE
    /\ constructed = TRUE
    /\ pcW = [w \in Writers |-> "idle"]
    /\ pcC = [c \in Closers |-> "idle"]
    /\ sweepers = 0
    /\ ticks = 1
    /\ nextId = 0
    /\ crashed = "no"
    /\ faults = 0
    /\ walk = 0
    /\ try = 0
    /\ sent = 0
    /\ handed = <<>>
    /\ ticksSince = 0
    /\ InitRegistry

NextCompress ==
    \/ WalkArchive
    \/ WalkFail
    \/ WalkRemove
    \/ WalkDeferred
    \/ WalkEnd
    \/ RotateOpen

SpecCompress == InitCompress /\ [][NextCompress]_vars

\* ------------------------------------------- f.format, step by step
\* The names of a directory in which the sink picks a name: 1..NameSpace
\* are the names its pattern gives with the values of rand.Int31(), and
\* DefaultName is the name defaultFnFormatter() returns at that time.
DefaultName == NameSpace + 1

NameDirectories ==
    {d \in [1..DefaultName ->
              [log : BOOLEAN, tgz : {"none"}, data : {<<>>}, mtime : {0},
               form : {DefaultForm, PatternForm}]] :
        \A n \in 1..DefaultName :
            d[n].form = (IF n = DefaultName THEN DefaultForm ELSE PatternForm)}

\* Mutant of StatNotExist: the result of os.Stat is not looked at.
StatAnything(n) == TRUE

\* os.Stat of the name n in f.path returns an error that os.IsNotExist
\* accepts: there is no file of that name.
StatNotExist(n) == ~disk[n].log

\* One turn of the loop of f.format: a name made with rand.Int31() is
\* returned when os.Stat reports that it does not exist; otherwise (the
\* file exists, or os.Stat fails in another way) try is incremented.
FormatTry ==
    /\ crashed = "no" /\ pcLoop = "format"
    /\ try < formatTries
    /\ \E n \in 1..NameSpace,
          statFails \in (IF faults < MaxFaults THEN BOOLEAN ELSE {FALSE}) :
         /\ faults' = IF statFails THEN faults + 1 ELSE faults
         /\ IF ~statFails /\ StatNotExist(n)
            THEN /\ filename' = n
                 /\ pcLoop' = "named"
                 /\ UNCHANGED try
            ELSE /\ try' = try + 1
                 /\ UNCHANGED <<filename, pcLoop>>
    /\ UNCHANGED <<registry, options, walk, filesize, file, buf, channels, elapse, fds,
                   disk, rotFrom, wgDone, constructed, callers, sweepers,
                   ticks, crashed, history, prevFile, ticksSince>>

\* The loop of f.format ends with try = 100: return "".
FormatExhausted ==
    /\ crashed = "no" /\ pcLoop = "format"
    /\ try >= formatTries
    /\ filename' = 0
    /\ pcLoop' = "named"
    /\ UNCHANGED <<registry, options, try, io, walk, filesize, file, buf, channels,
                   elapse, fds, disk, rotFrom, wgDone, constructed, callers,
                   sweepers, ticks, crashed, history, prevFile, ticksSince>>

\* rotate: if f.filename == "" { f.filename = defaultFnFormatter() }.
RotateFallback ==
    /\ crashed = "no" /\ pcLoop = "named"
    /\ filename' = IF filename = 0 THEN DefaultName ELSE filename
    /\ pcLoop' = "openfile"
    /\ UNCHANGED <<registry, options, try, io, walk, filesize, file, buf, channels,
                   elapse, fds, disk, rotFrom, wgDone, constructed, callers,
                   sweepers, ticks, crashed, history, prevFile, ticksSince>>

\* rotate: os.OpenFile of f.path + "/" + f.filename with O_APPEND and
\* O_CREATE; then the tick case resets elapse and starts a sweep.
RotateOpenFile ==
    /\ crashed = "no" /\ pcLoop = "openfile"
    /\ \E ok \in (IF faults < MaxFaults THEN BOOLEAN ELSE {TRUE}) :
         /\ faults' = IF ok THEN faults ELSE faults + 1
         /\ IF ok
            THEN /\ disk' = [disk EXCEPT ![filename].log = TRUE,
                                         ![filename].mtime = ticks]
                 /\ file' = filename
                 /\ fds' = fds \cup {filename}
            ELSE /\ file' = Nil
                 /\ UNCHANGED <<disk, fds>>
    /\ elapse' = 0
    /\ sweepers' = sweepers + 1
    /\ pcLoop' = "select"
    /\ UNCHANGED <<registry, options, try, walk, filesize, filename, buf, channels,
                   rotFrom, wgDone, constructed, callers, ticks, crashed,
                   history, prevFile, ticksSince>>

\* The naming alone: a sink with a pattern, in the rotation of a tick, has
\* closed its file p, run the archiver and reset f.filesize, and calls
\* f.format(); plain log files that earlier archiver runs failed to
\* archive are left in the directory.
InitNaming ==
    /\ rotatePolicy \in {RotateByDuration, RotateBySize}
    /\ rotateDuration \in RotateDurations
    /\ rotateFileSize \in RotateFileSizes
    /\ sweepPolicy \in {SweepByFileCount, SweepByInterval}
    /\ sweepInterval \in SweepIntervals
    /\ sweepFileCount \in SweepFileCounts
    /\ fnregex = PatternForm
    /\ msgLen \in MsgLens
    /\ filesize = 0
    /\ buf = <<>>
    /\ messages = <<>>
    /\ messagesClosed = FALSE
    /\ closeNotify = FALSE
    /\ closed = 0
    /\ elapse = 1
    /\ fds = {}
    /\ disk \in NameDirectories
    /\ \E p \in 1..DefaultName :
          /\ disk[p].log
          /\ filename = p
          /\ file = p
          /\ prevFile = p
    /\ pcLoop = "format"
    /\ rotFrom = "tick"
    /\ wgDone = TRUE
    /\ constructed = TRUE
    /\ pcW = [w \in Writers |-> "idle"]
    /\ pcC = [c \in Closers |-> "idle"]
    /\ sweepers = 0
    /\ ticks = 1
    /\ nextId = 0
    /\ crashed = "no"
    /\ faults = 0
    /\ walk = 0
    /\ try = 0
    /\ sent = 0
    /\ handed = <<>>
    /\ ticksSince = 0
    /\ InitRegistry

NextNaming ==
    \/ FormatTry
    \/ FormatExhausted
    \/ RotateFallback
    \/ RotateOpenFile

SpecNaming == InitNaming /\ [][NextNaming]_vars

\* -------------------------------------------------------- the registry
\* Inputs: the names and levels of the sinks registered, the arguments of
\* SetMode, the level of a log call and whether its message is empty.
SinkNames == {Console, File, Syslog}

SinkLevels == {LevelError, LevelInfo, LevelDebug, LevelTrace}

ModeNames == {"debug", "dev", "devel", "release", "verbose"}

\* Mutant of Delivers: the mode is not looked at.
DeliversByLevel(lg, level) == lg.level >= level

\* The test of the delivery loop of context.log for one sink.
Delivers(lg, level) ==
    mode = ModeDebug \/ (lg.level >= level /\ level < LevelDebug)

\* The test under which context.log, in release mode, returns before it
\* builds the message: no sink passes the test of the level.
Skips(level) ==
    /\ mode = ModeRelease
    /\ ~\E n \in DOMAIN loggers :
          loggers[n].level >= level /\ level < LevelDebug

\* context.log(level, message): the sinks whose Write is called.
Log(level, empty) ==
    /\ crashed = "no"
    /\ received' =
          {[level |-> level,
            empty |-> empty,
            mode |-> mode,
            to |-> IF empty \/ Skips(level)
                   THEN {}
                   ELSE {[name |-> n, level |-> loggers[n].level] :
                            n \in {m \in DOMAIN loggers : Delivers(loggers[m], level)}}]}
    /\ UNCHANGED <<fileSink, mode, initialized, loggers, nextLogger, closedLoggers>>

\* Mutant of ClosedByRegist: the sink in place is not closed.
ClosedByRegistNone(name) == {}

\* The sinks regist closes: the one registered under the name, if any.
ClosedByRegist(name) ==
    IF name \in DOMAIN loggers THEN {loggers[name].id} ELSE {}

\* context.regist(logger), logger not nil: the sink registered under the
\* name is closed, and the new one takes its place.
Regist(name, level) ==
    /\ crashed = "no"
    /\ nextLogger <= MaxLoggers
    /\ nextLogger' = nextLogger + 1
    /\ closedLoggers' = closedLoggers \cup ClosedByRegist(name)
    /\ loggers' = [n \in DOMAIN loggers \cup {name} |->
                     IF n = name
                     THEN [id |-> nextLogger + 1, level |-> level]
                     ELSE loggers[n]]
    /\ UNCHANGED <<fileSink, mode, initialized, received>>

\* context.regist(nil), as with the nil that NewSysLogger returns when it
\* cannot reach its server: return.
RegistNil ==
    /\ crashed = "no"
    /\ UNCHANGED vars

\* context.setMode(m): panics on a name that is no mode.
SetMode(m) ==
    /\ crashed = "no"
    /\ IF m \in {ModeDebug, "dev", "devel"}
       THEN mode' = ModeDebug /\ UNCHANGED crashed
       ELSE IF m = ModeRelease
            THEN mode' = ModeRelease /\ UNCHANGED crashed
            ELSE crashed' = "invalid logger mode" /\ UNCHANGED mode
    /\ UNCHANGED <<fileSinkRunning, initialized, loggers, nextLogger,
                   closedLoggers, received>>

\* context.close(): every sink is closed and taken out of the registry.
Close ==
    /\ crashed = "no"
    /\ closedLoggers' = closedLoggers \cup {loggers[n].id : n \in DOMAIN loggers}
    /\ loggers' = [n \in {} |-> [id |-> 0, level |-> LevelPanic]]
    /\ initialized' = 0
    /\ UNCHANGED <<fileSink, mode, nextLogger, received>>

\* The registry alone, before any file sink is constructed.
InitDispatch ==
    /\ InitRegistry
    /\ rotatePolicy = RotateByDuration
    /\ rotateDuration \in RotateDurations
    /\ rotateFileSize \in RotateFileSizes
    /\ sweepPolicy = SweepByFileCount
    /\ sweepInterval \in SweepIntervals
    /\ sweepFileCount \in SweepFileCounts
    /\ fnregex = defaultFnRegex
    /\ msgLen = 60
    /\ filesize = 0
    /\ filename = 0
    /\ file = Nil
    /\ buf = <<>>
    /\ messages = <<>>
    /\ messagesClosed = FALSE
    /\ closeNotify = FALSE
    /\ closed = 0
    /\ elapse = 0
    /\ fds = {}
    /\ disk = <<>>
    /\ pcLoop = "none"
    /\ rotFrom = "init"
    /\ wgDone = FALSE
    /\ constructed = FALSE
    /\ pcW = [w \in Writers |-> "idle"]
    /\ pcC = [c \in Closers |-> "idle"]
    /\ sweepers = 0
    /\ ticks = 0
    /\ nextId = 0
    /\ crashed = "no"
    /\ faults = 0
    /\ walk = 0
    /\ try = 0
    /\ sent = 0
    /\ handed = <<>>
    /\ prevFile = 0
    /\ ticksSince = 0

NextDispatch ==
    \/ \E level \in Levels, empty \in BOOLEAN : Log(level, empty)
    \/ \E name \in SinkNames, level \in SinkLevels : Regist(name, level)
    \/ RegistNil
    \/ \E m \in ModeNames : SetMode(m)
    \/ Close

SpecDispatch == InitDispatch /\ [][NextDispatch]_vars

\* ------------------------------------------------------------ the claims
\* The callers of Close that won the compare-and-swap (in teardown or past).
Tearing == {c \in Closers : pcC[c] \in {"closeNotify", "closeMessages", "flush", "fclose", "done"}}

\* Close has returned from its teardown.
CloseReturned == \E c \in Closers : pcC[c] = "done"

\* The callers' messages that are on disk, in a plain log file or in a
\* complete archive, in the order of the files and of the lines in them.
RECURSIVE OnDisk(_)
OnDisk(n) ==
    IF n = 0 THEN <<>>
    ELSE OnDisk(n - 1) \o
         (IF disk[n].log \/ disk[n].tgz = "full"
          THEN SelectSeq(disk[n].data, LAMBDA m : m # ErrMsg)
          ELSE <<>>)

\* The messages 1..n in order.
UpTo(n) == [i \in 1..n |-> i]

\* The bytes of the messages written into the sink since the last rotation:
\* those in the file and those still in the buffer.
BytesSinceRotation == filesize + BufLen(buf)

\* C1: once Close has returned, every message that a Write call sent before
\* is on disk, and the messages on disk are in the order they were sent.
C1_WrittenBeforeCloseOnDisk ==
    (CloseReturned /\ crashed = "no") => OnDisk(Len(disk)) = UpTo(sent)

\* C2: whatever the number of Close calls, f.closed goes from 0 to 1 once and
\* never back, one call at most does the teardown (and only with the flag
\* set), and no channel is closed twice.
C2_CloseOnce ==
    /\ [](/\ Cardinality(Tearing) <= 1
          /\ (closed = 1) <=> (Tearing # {})
          /\ crashed # "close of closed channel")
    /\ [][closed = 1 => closed' = 1]_vars

\* C2 witness: two Close calls have returned, one after the teardown.
C2_Witness ==
    \E c, d \in Closers : pcC[c] = "done" /\ pcC[d] = "noop"

\* C3: no Write call ends in a send on the closed queue.
C3_WriteNeverFails == crashed # "send on closed channel"

\* C4: only the loop changes the buffer, the byte counter and the open
\* handles: no step of a caller of Close changes them.
C4_OnlyLoopMutates ==
    [][(buf' # buf \/ filesize' # filesize \/ fds' # fds) => pcC' = pcC]_vars

\* C5: the sink has at most one open handle.
C5_OneOpenHandle == Cardinality(fds) <= 1

\* C5 witness: a rotation that started before Close closed the file has
\* opened the next file after it.
C5_Witness ==
    /\ CloseReturned /\ rotFrom = "tick" /\ pcLoop = "select"
    /\ file # Nil /\ fds = {file}

\* C6: once Close has returned and the loop has stopped, no handle is open
\* and the buffer is empty.
C6_ClosedAndFlushed ==
    (CloseReturned /\ pcLoop = "done" /\ crashed = "no") => (fds = {} /\ buf = <<>>)

\* C7: the queue never holds more than BufferCapacity messages, every message
\* sent is either still queued or was handed to the loop once, in the order
\* sent, and while the sink is open no Write call drops its message.
C7_Backpressure ==
    /\ Len(messages) <= BufferCapacity
    /\ handed \o messages = UpTo(sent)
    /\ closed = 0 => nextId = sent + Cardinality({w \in Writers : pcW[w] = "send"})

\* C7 witness: the sink is open, the queue is full and a Write call waits.
C7_Witness ==
    /\ closed = 0 /\ Len(messages) = BufferCapacity
    /\ \E w \in Writers : pcW[w] = "send"
    /\ handed # <<>>

\* C8, as claimed: before Close, a Write call is accepted only while an
\* open active file exists.
C8_AcceptedOnlyWithOpenFile ==
    [][(sent' > sent /\ closed = 0) => (file # Nil /\ file \in fds)]_vars

\* C8, amended: ready() is called only when the initial rotation has opened
\* the active file, which is still open when NewFileLogger returns the
\* sink; no Write call is made before that; when the initial rotation fails
\* the sink is never ready.  (Later, while a rotation is between closing the
\* old file and opening the new one, or after a failed open, Write calls are
\* accepted with no open file.)
C8_ReadyAfterInitialRotation ==
    /\ []((constructed \/ nextId > 0) => wgDone)
    /\ [](crashed = "rotate" => (~wgDone /\ ~constructed))
    /\ [][(~wgDone /\ wgDone') =>
            (file' # Nil /\ file' \in fds' /\ disk'[file'].log /\ filename' = file')]_vars
    /\ [][(~constructed /\ constructed') =>
            (file # Nil /\ file \in fds /\ disk[file].log /\ filename = file)]_vars

\* C8 witness: a Write call has been accepted.
C8_Witness == sent > 0 /\ wgDone /\ constructed

\* C9, as claimed: after a rotation by size, the file that was active before
\* it is an archive, and no plain log file, once the following tick is over.
C9_ArchivedByFollowingTick ==
    (/\ rotatePolicy = RotateBySize /\ prevFile # 0 /\ faults = 0
     /\ pcLoop = "select" /\ ticksSince >= 1)
    => (disk[prevFile].tgz = "full" /\ ~disk[prevFile].log)

\* C9, amended: under the by-size policy a tick with f.filesize >= T starts a
\* rotation, which ends with a new name and, when the open succeeded, a new
\* open file; the file that was active before is not archived by that
\* rotation: the archiver run of the next rotation archives it and removes
\* it as a plain log file, when that run does not fail.
C9_ArchivedAtNextRotation ==
    /\ [](prevFile # 0 => disk[prevFile].tgz = "none")
    /\ [][(/\ pcLoop = "select" /\ ticks' = ticks + 1
            /\ rotatePolicy = RotateBySize /\ filesize >= rotateFileSize)
           => (pcLoop' = "rotate" /\ prevFile' = filename)]_vars
    /\ [][(pcLoop = "open" /\ pcLoop' = "select" /\ rotFrom = "tick")
           => (/\ filename' # prevFile
               /\ file' # Nil => (file' = filename' /\ fds' = {file'} /\ disk'[file'].log))]_vars
    /\ [][(pcLoop = "compress" /\ pcLoop' = "open" /\ faults' = faults)
           => \A s \in Stems : (disk[s].log /\ s # filename)
                  => (disk'[s].tgz = "full" /\ ~disk'[s].log)]_vars

\* C9 witness: under the by-size policy, the file that was active before the
\* first rotation has been archived by the second.
C9_Witness ==
    /\ rotatePolicy = RotateBySize /\ prevFile = 2 /\ pcLoop = "open"
    /\ disk[1].tgz = "full" /\ ~disk[1].log /\ disk[1].data # <<>>

Family == {s \in Stems : MatchString(fnregex, s)}

\* A step of a sweep task.
SweepStep == sweepers' = sweepers - 1

\* C11: a sweep by interval D leaves no archive of the sink's family that
\* was modified before now - D, and leaves every archive of the family
\* that was modified after now - D.
C11_AgeSweepRemovesOldKeepsRecent ==
    [][(SweepStep /\ sweepPolicy = SweepByInterval) =>
        \A s \in Family :
            /\ disk'[s].tgz # "none" => ~(disk[s].mtime < ticks - sweepInterval)
            /\ disk[s].mtime > ticks - sweepInterval => disk'[s].tgz # "none"]_vars

\* C12: a sweep by count N > 0 over the k archives its test selects leaves
\* min(N, k) of them, none of which is older than one it removed; it
\* touches no other file, and nothing at all when k <= N.
C12_CountSweepKeepsNewest ==
    [][(SweepStep /\ sweepPolicy = SweepByFileCount /\ sweepFileCount > 0) =>
        LET k == Cardinality(Matching)
            left == {s \in Matching : disk'[s].tgz # "none"}
        IN  /\ Cardinality(left) = (IF sweepFileCount < k THEN sweepFileCount ELSE k)
            /\ \A a \in left, b \in Matching \ left : disk[a].mtime >= disk[b].mtime
            /\ \A s \in Stems \ (Matching \ left) : disk'[s] = disk[s]
            /\ k <= sweepFileCount => disk' = disk]_vars

\* C12 witness: a sweep by count 2 has run over three selected archives:
\* two are left, and the one removed was older than both.
C12_Witness ==
    /\ sweepers = 0 /\ prevFile = DirArchives + 1
    /\ sweepPolicy = SweepByFileCount /\ sweepFileCount = 2
    /\ Cardinality(Matching) = 2
    /\ Cardinality({s \in Stems : ~disk[s].log /\ disk[s].tgz = "none"}) = 1
    /\ \E s \in Stems :
          /\ ~disk[s].log /\ disk[s].tgz = "none"
          /\ disk[s].form \in {fnregex, DefaultForm}
          /\ \A m \in Matching : disk[s].mtime < disk[m].mtime

\* C13: a sweep removes only archives of the sink's own naming family.
C13_SweepRemovesOwnFamilyOnly ==
    [][SweepStep => \A s \in Stems : disk'[s] # disk[s] => s \in Family]_vars

\* C14: in no state is a source log file gone while its archive lacks its
\* end (the tar footer and the gzip trailer are not yet written).
C14_SourceGoneOnlyWhenArchiveComplete ==
    \A s \in Stems : disk[s].tgz = "partial" => disk[s].log

\* C15: when an archiver run has failed at one file, every other plain log
\* file it was to archive is archived and removed at the end of the run.
C15_FailureDoesNotStopRun ==
    (pcLoop = "open" /\ walk # 0) =>
        \A s \in Stems \ {walk, filename} : ~disk[s].log /\ disk[s].tgz = "full"

\* C16: the function Path gives f.format returns no name under which a
\* file exists when os.Stat looks, makes at most formatTries attempts and
\* returns "" exactly when they have all failed; rotate then takes the
\* default name, and never opens a file under the empty name.
C16_NamingAvoidsExistingFiles ==
    /\ [](try <= formatTries)
    /\ [][(pcLoop = "format" /\ pcLoop' = "named" /\ filename' # 0)
           => (/\ try < formatTries
               /\ filename' \in 1..NameSpace
               /\ ~disk[filename'].log)]_vars
    /\ [][(pcLoop = "format" /\ pcLoop' = "named")
           => (filename' = 0 <=> try = formatTries)]_vars
    /\ [][(pcLoop = "named" /\ filename = 0)
           => (filename' = DefaultName /\ pcLoop' = "openfile")]_vars
    /\ [](pcLoop = "openfile" => filename # 0)
    /\ [][(pcLoop = "openfile" /\ pcLoop' = "select" /\ file' # Nil)
           => (file' = filename /\ filename # 0 /\ disk'[file'].log)]_vars

\* C16 witness: every attempt has collided, rotate has taken the default
\* name and opened the file under it.
C16_Witness ==
    /\ try = formatTries /\ pcLoop = "select"
    /\ filename = DefaultName /\ file = DefaultName /\ fds = {DefaultName}
    /\ \A n \in 1..NameSpace : disk[n].log

\* The sinks of the registry, as log records those it writes to.
Registered == {[name |-> n, level |-> loggers[n].level] : n \in DOMAIN loggers}

\* C17, as claimed: in every mode, a sink is written to only when its level
\* is >= the level of the message.
C17_DeliveredOnlyPastThreshold ==
    \A r \in received : \A d \in r.to : d.level >= r.level

\* C17, amended: in release mode a message is written to exactly the sinks
\* whose level is >= its level, and to none when its level is LevelDebug
\* or LevelTrace; in debug mode, the mode at start, it is written to every
\* registered sink, whatever the levels; an empty message is written to
\* no sink.
C17_DeliveredByModeAndLevel ==
    [][received' # received =>
        \A r \in received' :
            /\ r.mode = mode
            /\ r.empty => r.to = {}
            /\ (~r.empty /\ mode = ModeDebug) => r.to = Registered
            /\ (~r.empty /\ mode = ModeRelease /\ r.level < LevelDebug)
                  => r.to = {d \in Registered : d.level >= r.level}
            /\ (mode = ModeRelease /\ r.level >= LevelDebug) => r.to = {}]_vars

\* C17 witness: in release mode a message of LevelInfo has been written to
\* one sink and not to another, registered with a lower level.
C17_Witness ==
    \E r \in received :
        /\ r.mode = ModeRelease /\ mode = ModeRelease
        /\ r.level = LevelInfo /\ ~r.empty
        /\ \E d \in r.to : d.level >= LevelInfo
        /\ \E e \in Registered \ r.to : e.level < LevelInfo

\* C18: every call of Close returns, and once f.closed is set the loop
\* exits in the end, under the fair scheduling of the tasks and of the
\* loop's select.
C18_CloseReturnsAndLoopExits ==
    /\ \A c \in Closers : (pcC[c] # "idle") ~> (pcC[c] \in {"done", "noop"})
    /\ (closed = 1) ~> (pcLoop = "done")

\* C19: after the initial rotation, a rotation starts only in the step that
\* handles a tick, and only when the policy is by size and f.filesize is
\* >= the size threshold, or the policy is by duration and elapse, with
\* the minute of this tick added, is >= the rotate duration; the step that
\* takes a message off the queue never starts one.  The end of such a
\* rotation sets elapse to zero and starts one sweep task, no other step
\* starts one, and the loop goes on to its select while the sweep task has
\* not run yet.
C19_RotatesAtTicksOnly ==
    /\ [][(pcLoop # "rotate" /\ pcLoop' = "rotate")
           => (/\ pcLoop = "select" /\ ticks' = ticks + 1 /\ elapse' = elapse + 1
               /\ handed' = handed /\ rotFrom' = "tick"
               /\ \/ rotatePolicy = RotateBySize /\ filesize >= rotateFileSize
                  \/ rotatePolicy = RotateByDuration /\ elapse' >= rotateDuration)]_vars
    /\ [][handed' # handed => (pcLoop = "select" /\ pcLoop' = "select")]_vars
    /\ [][(pcLoop = "open" /\ pcLoop' = "select" /\ rotFrom = "tick")
           => (elapse' = 0 /\ sweepers' = sweepers + 1)]_vars
    /\ [][sweepers' > sweepers
           => (/\ pcLoop = "open" /\ pcLoop' = "select" /\ rotFrom = "tick"
               /\ sweepers' = sweepers + 1)]_vars
    /\ [][(elapse' # elapse /\ ticks' = ticks) => (pcLoop = "open" /\ elapse' = 0)]_vars

\* C19 witness: a rotation under the by-duration policy has ended, at the
\* tick at which elapse reached the rotate duration: elapse is zero again,
\* the sweep task is started and has not run, and the loop is back at its
\* select.
C19_Witness ==
    /\ rotatePolicy = RotateByDuration /\ rotFrom = "tick" /\ pcLoop = "select"
    /\ elapse = 0 /\ ticks = rotateDuration /\ sweepers = 1
    /\ Len(disk) = 2 /\ file = 2
    /\ crashed = "no"

\* The archiver's error is the last message of the buffer.
ErrorRecorded == buf # <<>> /\ buf[Len(buf)] = ErrMsg

\* C20: when the archiver fails in a rotation, rotate passes the error to
\* f.write as a message, which is then the last of the buffer, and goes on:
\* it sets f.filesize to zero, takes the next name and opens the file
\* under it; the process does not panic and the loop is back at its select.
C20_ArchiverFailureRecorded ==
    /\ [][(pcLoop = "compress" /\ faults' > faults)
           => (pcLoop' = "open" /\ ErrorRecorded' /\ crashed' = "no")]_vars
    /\ [][(pcLoop = "open" /\ pcLoop' # "open" /\ ErrorRecorded)
           => (/\ pcLoop' = "select" /\ crashed' = "no"
               /\ filesize' = 0 /\ filename' # filename /\ filename' # 0
               /\ faults' = faults => (/\ file' = filename' /\ fds' = {file'}
                                       /\ disk'[file'].log)
               /\ buf' = buf)]_vars

\* C20 witness: after a rotation in which the archiver failed, the new file
\* is open, f.filesize is zero, the error is in the buffer and the loop is
\* at its select.
C20_Witness ==
    /\ pcLoop = "select" /\ rotFrom = "tick" /\ crashed = "no"
    /\ faults = 1 /\ ErrorRecorded
    /\ filesize = 0 /\ file = filename /\ fds = {file} /\ disk[file].log
    /\ \E s \in Stems : s # filename /\ disk[s].log

\* C21: the step in which the loop takes the close signal and exits leaves
\* no message in the buffer: the loop flushes before it stops.
C21_LoopFlushesBeforeExit ==
    [][(pcLoop # "done" /\ pcLoop' = "done") => buf' = <<>>]_vars

\* The sinks in the registry.
RegisteredIds == {loggers[n].id : n \in DOMAIN loggers}

\* C22: the registry holds one sink per name, none of them closed, and
\* every other sink constructed has been closed; a registration puts the
\* new sink under its name and closes the sink that was there, and leaves
\* the other names alone; the registry changes in no other way (so not by
\* a registration of nil) but by Close, which closes every registered sink
\* and empties the registry; a log call on the empty registry writes to no
\* sink.
C22_OneSinkPerName ==
    /\ [](/\ \A n, m \in DOMAIN loggers : loggers[n].id = loggers[m].id => n = m
          /\ RegisteredIds \cap closedLoggers = {}
          /\ RegisteredIds \cup closedLoggers = 1..nextLogger)
    /\ [][nextLogger' # nextLogger =>
            \E name \in SinkNames :
                /\ nextLogger' = nextLogger + 1
                /\ DOMAIN loggers' = DOMAIN loggers \cup {name}
                /\ loggers'[name].id = nextLogger'
                /\ \A n \in DOMAIN loggers \ {name} : loggers'[n] = loggers[n]
                /\ closedLoggers' =
                      closedLoggers \cup
                      (IF name \in DOMAIN loggers THEN {loggers[name].id} ELSE {})]_vars
    /\ [][(loggers' # loggers /\ nextLogger' = nextLogger) =>
            (/\ DOMAIN loggers' = {}
             /\ closedLoggers' = closedLoggers \cup RegisteredIds
             /\ initialized' = 0)]_vars
    /\ [][(received' # received /\ DOMAIN loggers = {}) =>
            \A r \in received' : r.to = {}]_vars

\* C22 witness: a sink was registered after the console sink; Close has
\* closed every sink constructed and emptied the registry, and a log call
\* in debug mode has written to no sink.
C22_Witness ==
    /\ DOMAIN loggers = {} /\ initialized = 0
    /\ nextLogger >= 2 /\ closedLoggers = 1..nextLogger
    /\ mode = ModeDebug
    /\ \E r \in received : ~r.empty /\ r.mode = ModeDebug /\ r.to = {}

\* The callers' messages written into the files of the directory, in the
\* order of the files and of the lines in them.
RECURSIVE Written(_)
Written(n) ==
    IF n = 0 THEN <<>>
    ELSE Written(n - 1) \o SelectSeq(disk[n].data, LAMBDA m : m # ErrMsg)

\* The callers' messages in the buffer.
Buffered == SelectSeq(buf, LAMBDA m : m # ErrMsg)

=============================================================================
